---- MODULE Spec2Model ----
(***************************************************************************)
(* Xeno-lang: the tree-walking evaluator (src/runtime.rs) and the lexer    *)
(* and recursive-descent parser (src/lexer.rs, src/parser.rs).             *)
(*                                                                         *)
(* Spec      : a Runtime driven through its public methods.                *)
(* ParseSpec : parse(input) applied to source texts.                       *)
(***************************************************************************)
EXTENDS Integers, Sequences, FiniteSets, TLC

VARIABLES
    globals,    \* Runtime.globals : HashMap<String, Value>
    locals,     \* Runtime.locals  : Vec<HashMap<String, Value>>
    last,       \* history: the most recent method call, its inputs and outcome
    src,        \* parse: the input text, a sequence of characters
    tokens,     \* parse: the token vector handed to Parser::new
    parsed      \* parse: the outcome of parse(input), or NotParsed

vars == <<globals, locals, last, src, tokens, parsed>>

-----------------------------------------------------------------------------
(* Bounds *)

\* Depth of the locals stack at which push_scope/eval_function are no longer called.
MaxScopes == 2
\* Width of i64 and of usize (a 64-bit target), scaled down to TLC's integers.
IntBits == 6

MinInt == -(2 ^ (IntBits - 1))
MaxInt == (2 ^ (IntBits - 1)) - 1

-----------------------------------------------------------------------------
(* Value (runtime.rs 5-8) and the AST (ast.rs) *)

IntV(n) == [v |-> "Int", n |-> n]
ArrV(s) == [v |-> "Array", elems |-> s]

EInt(n)        == [e |-> "Int", n |-> n]
EArray(es)     == [e |-> "Array", exprs |-> es]
EVar(name)     == [e |-> "Var", name |-> name]
EDataRef(name) == [e |-> "DataRef", name |-> name]
ECall(name, a) == [e |-> "Call", name |-> name, args |-> a]
EIndex(t, i)   == [e |-> "Index", target |-> t, index |-> i]

SLet(name, ty, value) == [s |-> "Let", name |-> name, ty |-> ty, value |-> value]
SExprStmt(expr)       == [s |-> "ExprStmt", expr |-> expr]
SReturn(expr)         == [s |-> "Return", expr |-> expr]

Param(name, ty) == [name |-> name, ty |-> ty]

Some(x) == [some |-> TRUE, val |-> x]
None    == [some |-> FALSE]

Function(name, params, body, return_expr) ==
    [name |-> name, params |-> params, body |-> body, return_expr |-> return_expr]

\* Result<_, String>
Ok(x)  == [ok |-> TRUE, val |-> x]
Err(m) == [ok |-> FALSE, err |-> m]

\* The messages of runtime.rs, each with the value it is formatted with.
UndefinedVariable(name)  == [msg |-> "Undefined variable: {}", name |-> name]
UndefinedDataField(name) == [msg |-> "Undefined data field: {}", name |-> name]
CallsNotSupported(name)  ==
    [msg |-> "Function calls not yet supported in evaluation: {}", name |-> name]
IndexOutOfBounds(i)      == [msg |-> "Array index out of bounds: {}", pos |-> i]
IndexTypeMismatch        == [msg |-> "Array indexing requires array and int"]
ArgumentCount(name, expects, got) ==
    [msg |-> "Function {} expects {} arguments, got {}",
     name |-> name, expects |-> expects, got |-> got]

-----------------------------------------------------------------------------
(* HashMap<String, Value> as a function on the set of its keys *)

EmptyMap == [k \in {} |-> IntV(0)]
Insert(m, k, x) == [n \in (DOMAIN m) \cup {k} |-> IF n = k THEN x ELSE m[n]]

-----------------------------------------------------------------------------
(* Runtime *)

\* get_var's loop over self.locals.iter().rev(), from scope i downwards
RECURSIVE scan_locals(_, _, _)
scan_locals(l, i, name) ==
    IF i = 0 THEN None
    ELSE IF name \in DOMAIN l[i] THEN Some(l[i][name])
    ELSE scan_locals(l, i - 1, name)

get_var_globals_first(g, l, name) ==
    IF name \in DOMAIN g THEN Some(g[name]) ELSE scan_locals(l, Len(l), name)

get_var(g, l, name) ==
    LET found == scan_locals(l, Len(l), name)
    IN  IF found.some THEN found
        ELSE IF name \in DOMAIN g THEN Some(g[name]) ELSE None

set_global(g, l, name, value) == [g |-> Insert(g, name, value), l |-> l]

set_var_into_globals(g, l, name, value) == [g |-> Insert(g, name, value), l |-> l]

set_var(g, l, name, value) ==
    IF Len(l) > 0
    THEN [g |-> g, l |-> [l EXCEPT ![Len(l)] = Insert(l[Len(l)], name, value)]]
    ELSE [g |-> Insert(g, name, value), l |-> l]

push_scope(l) == Append(l, EmptyMap)

pop_scope(l) == IF Len(l) = 0 THEN l ELSE SubSeq(l, 1, Len(l) - 1)

\* `*idx as usize`: the two's-complement reinterpretation of an i64
as_usize(n) == n % (2 ^ IntBits)

\* Expr::Var and Expr::DataRef (runtime.rs 64-69)
eval_var(g, l, name) ==
    LET o == get_var(g, l, name)
    IN  IF o.some THEN Ok(o.val) ELSE Err(UndefinedVariable(name))

eval_data_ref(g, l, name) ==
    LET o == get_var(g, l, name)
    IN  IF o.some THEN Ok(o.val) ELSE Err(UndefinedDataField(name))

\* Expr::Call (runtime.rs 70-72): the arguments are not looked at
eval_call_as_zero(name, args) == Ok(IntV(0))

eval_call(name, args) == Err(CallsNotSupported(name))

\* the match on (&target_val, &index_val) (runtime.rs 77-83)
index_value_inclusive(target_val, index_val) ==
    IF target_val.v = "Array" /\ index_val.v = "Int"
    THEN LET i == as_usize(index_val.n)
         IN  IF i < Len(target_val.elems) THEN Ok(target_val.elems[i + 1])
             ELSE IF i = Len(target_val.elems) /\ i > 0 THEN Ok(target_val.elems[i])
             ELSE Err(IndexOutOfBounds(i))
    ELSE Err(IndexTypeMismatch)

index_value(target_val, index_val) ==
    IF target_val.v = "Array" /\ index_val.v = "Int"
    THEN LET i == as_usize(index_val.n)
         IN  IF i < Len(target_val.elems) THEN Ok(target_val.elems[i + 1])
             ELSE Err(IndexOutOfBounds(i))
    ELSE Err(IndexTypeMismatch)

\* eval_expr (runtime.rs 54-86). The outcome is paired with `looked`, the names
\* handed to get_var in the order they were looked up (history only).
RECURSIVE eval_expr(_, _, _)
RECURSIVE eval_elements(_, _, _, _, _, _)

\* one turn of the loop of Expr::Array (runtime.rs 59-61), given the outcome r
\* of element i
push_element(g, l, exprs, i, values, looked, r) ==
    IF ~r.res.ok THEN [res |-> r.res, looked |-> looked \o r.looked]
    ELSE eval_elements(g, l, exprs, i + 1, Append(values, r.res.val), looked \o r.looked)

\* the loop of Expr::Array (runtime.rs 58-62), from element i on
eval_elements(g, l, exprs, i, values, looked) ==
    IF i > Len(exprs) THEN [res |-> Ok(ArrV(values)), looked |-> looked]
    ELSE push_element(g, l, exprs, i, values, looked, eval_expr(g, l, exprs[i]))

\* Expr::Index once the target gave t (runtime.rs 75-83), i the index's outcome
index_after_index(t, i) ==
    IF ~i.res.ok THEN [res |-> i.res, looked |-> t.looked \o i.looked]
    ELSE [res |-> index_value(t.res.val, i.res.val), looked |-> t.looked \o i.looked]

\* Expr::Index (runtime.rs 74): the target's failure is the expression's
index_after_target(g, l, expr, t) ==
    IF ~t.res.ok THEN t
    ELSE index_after_index(t, eval_expr(g, l, expr.index))

eval_expr(g, l, expr) ==
    CASE expr.e = "Int"     -> [res |-> Ok(IntV(expr.n)), looked |-> <<>>]
      [] expr.e = "Array"   -> eval_elements(g, l, expr.exprs, 1, <<>>, <<>>)
      [] expr.e = "Var"     -> [res |-> eval_var(g, l, expr.name), looked |-> <<expr.name>>]
      [] expr.e = "DataRef" -> [res |-> eval_data_ref(g, l, expr.name), looked |-> <<expr.name>>]
      [] expr.e = "Call"    -> [res |-> eval_call(expr.name, expr.args), looked |-> <<>>]
      [] expr.e = "Index"   -> index_after_target(g, l, expr, eval_expr(g, l, expr.target))

\* the Runtime after set_var, as the fields of a statement's outcome
stmt_bound(w, looked) == [res |-> Ok(None), g |-> w.g, l |-> w.l, looked |-> looked]

\* eval_stmt once the statement's expression gave r (runtime.rs 91-101)
stmt_after_expr(g, l, stmt, r) ==
    IF ~r.res.ok THEN [res |-> r.res, g |-> g, l |-> l, looked |-> r.looked]
    ELSE CASE stmt.s = "Let"      -> stmt_bound(set_var(g, l, stmt.name, r.res.val), r.looked)
           [] stmt.s = "ExprStmt" -> [res |-> Ok(None), g |-> g, l |-> l, looked |-> r.looked]
           [] stmt.s = "Return"   ->
                [res |-> Ok(Some(r.res.val)), g |-> g, l |-> l, looked |-> r.looked]

\* eval_stmt (runtime.rs 88-104): Ok(None), Ok(Some(val)) or Err, and the Runtime after
eval_stmt(g, l, stmt) ==
    stmt_after_expr(g, l, stmt,
                    eval_expr(g, l, IF stmt.s = "Let" THEN stmt.value ELSE stmt.expr))

\* the argument-count check (runtime.rs 108)
arity_unchecked(func, args) == TRUE

arity_ok(func, args) == Len(func.params) = Len(args)

\* one turn of the parameter loop (runtime.rs 120-122)
bind_param_keep_first(g, l, param, arg) ==
    IF Len(l) > 0 /\ param.name \in DOMAIN l[Len(l)] THEN [g |-> g, l |-> l]
    ELSE set_var(g, l, param.name, arg)

bind_param(g, l, param, arg) == set_var(g, l, param.name, arg)

\* func.params.iter().zip(args.iter()), from pair i on, w the Runtime so far
RECURSIVE bind_params(_, _, _, _)
bind_params(w, params, args, i) ==
    IF i > Len(params) \/ i > Len(args) THEN w
    ELSE bind_params(bind_param(w.g, w.l, params[i], args[i]), params, args, i + 1)

\* `if let Some(val) = ... { result = val; break; }` (runtime.rs 127-130):
\* whether the body loop stops after a statement that gave `ret`
loop_never_breaks(ret) == FALSE

loop_breaks(ret) == ret.some

\* the body loop (runtime.rs 125-131), from statement i on. `trace` lists the
\* statements evaluated, each with its outcome (history only).
RECURSIVE run_body(_, _, _, _, _, _, _)

\* one turn of the body loop, given the outcome s of statement i
body_after_stmt(body, i, result, trace, looked, s) ==
    IF ~s.res.ok
    THEN [res |-> s.res, g |-> s.g, l |-> s.l, trace |-> trace, looked |-> looked]
    ELSE IF s.res.val.some /\ loop_breaks(s.res.val)
    THEN [res |-> Ok(s.res.val.val), g |-> s.g, l |-> s.l, trace |-> trace,
          looked |-> looked]
    ELSE run_body(s.g, s.l, body, i + 1,
                  IF s.res.val.some THEN s.res.val.val ELSE result, trace, looked)

\* the history of one turn, then the turn
body_turn(body, i, result, trace, looked, s) ==
    body_after_stmt(body, i, result, Append(trace, [at |-> i, res |-> s.res]),
                    looked \o s.looked, s)

run_body(g, l, body, i, result, trace, looked) ==
    IF i > Len(body)
    THEN [res |-> Ok(result), g |-> g, l |-> l, trace |-> trace, looked |-> looked]
    ELSE body_turn(body, i, result, trace, looked, eval_stmt(g, l, body[i]))

\* `if let Some(expr) = &func.return_expr` (runtime.rs 134): whether the trailing
\* expression is evaluated, given whether a Return stopped the body loop
trailing_unless_returned(func, returned) == func.return_expr.some /\ ~returned

trailing_applies(func, returned) == func.return_expr.some

\* the outcome of a call, with its history: `bound`, the scope as the parameter
\* loop left it; `trace`; `tail`, the outcome of the trailing expression when it
\* was evaluated, with the scope it was evaluated in
Outcome(res, g, l, bound, trace, tail, looked) ==
    [res |-> res, g |-> g, l |-> l, bound |-> bound, trace |-> trace, tail |-> tail,
     looked |-> looked]

\* runtime.rs 135-139, given the outcome t of the trailing expression: a failure
\* returns at once, a value is returned after pop_scope
call_after_trailing(bound, bd, t) ==
    Outcome(t.res, bd.g, IF t.res.ok THEN pop_scope(bd.l) ELSE bd.l, bound, bd.trace,
            Some([res |-> t.res, scope |-> bd.l[Len(bd.l)]]), bd.looked \o t.looked)

\* runtime.rs 127-139, given the outcome bd of the body loop: a failed statement
\* returns at once
call_after_body(func, bound, bd) ==
    IF ~bd.res.ok
    THEN Outcome(bd.res, bd.g, bd.l, bound, bd.trace, None, bd.looked)
    ELSE IF trailing_applies(func, \E k \in 1..Len(bd.trace) : bd.trace[k].res.val.some)
    THEN call_after_trailing(bound, bd, eval_expr(bd.g, bd.l, func.return_expr.val))
    ELSE Outcome(bd.res, bd.g, pop_scope(bd.l), bound, bd.trace, None, bd.looked)

\* runtime.rs 124-139, given the Runtime b the parameter loop left
call_after_bind(func, b) ==
    call_after_body(func, Some(b.l[Len(b.l)]),
                    run_body(b.g, b.l, func.body, 1, IntV(0), <<>>, <<>>))

\* eval_function (runtime.rs 106-140)
eval_function(g, l, func, args) ==
    IF ~arity_ok(func, args)
    THEN Outcome(Err(ArgumentCount(func.name, Len(func.params), Len(args))),
                 g, l, None, <<>>, None, <<>>)
    ELSE call_after_bind(func,
                         bind_params([g |-> g, l |-> push_scope(l)], func.params, args, 1))

-----------------------------------------------------------------------------
(* Lexer (lexer.rs). A text is a sequence of characters, each a one-character *)
(* string; positions count from 1.                                           *)

Tok(kind)     == [t |-> kind]
TIdent(text)  == [t |-> "Ident", text |-> text]
TIntLit(n)    == [t |-> "IntLit", n |-> n]
TEof          == Tok("Eof")

\* char::is_whitespace, is_numeric and is_alphabetic on the characters used
Whitespace == {" ", "\n"}
Digits     == {"0", "1", "2", "3", "4", "5", "6", "7", "8", "9"}
Letters    == {"a", "b", "c", "d", "e", "f", "g", "h", "i", "j", "k", "l", "m", "n",
               "o", "p", "q", "r", "s", "t", "u", "v", "w", "x", "y", "z"}
DigitValue(c) ==
    CASE c = "0" -> 0 [] c = "1" -> 1 [] c = "2" -> 2 [] c = "3" -> 3 [] c = "4" -> 4
      [] c = "5" -> 5 [] c = "6" -> 6 [] c = "7" -> 7 [] c = "8" -> 8 [] c = "9" -> 9

\* the punctuation arms of next_token (lexer.rs 91-134)
Punctuation ==
    [c \in {"(", ")", "{", "}", "[", "]", ",", ";", ":", "=", "."} |->
        CASE c = "(" -> Tok("LParen")   [] c = ")" -> Tok("RParen")
          [] c = "{" -> Tok("LBrace")   [] c = "}" -> Tok("RBrace")
          [] c = "[" -> Tok("LBracket") [] c = "]" -> Tok("RBracket")
          [] c = "," -> Tok("Comma")    [] c = ";" -> Tok("Semicolon")
          [] c = ":" -> Tok("Colon")    [] c = "=" -> Tok("Equals")
          [] c = "." -> Tok("Dot")]

\* skip_whitespace (lexer.rs 50-58): the first position at or after pos that
\* holds no whitespace
RECURSIVE skip_whitespace(_, _)
skip_whitespace(input, pos) ==
    IF pos <= Len(input) /\ input[pos] \in Whitespace
    THEN skip_whitespace(input, pos + 1) ELSE pos

\* read_ident (lexer.rs 60-71): the run of alphanumerics and underscores
RECURSIVE read_ident(_, _, _)
read_ident(input, pos, ident) ==
    IF pos <= Len(input) /\ input[pos] \in Letters \cup Digits \cup {"_"}
    THEN read_ident(input, pos + 1, ident \o input[pos])
    ELSE [text |-> ident, pos |-> pos]

\* read_number (lexer.rs 73-84): the run of digits, and num.parse().unwrap_or(0):
\* `n` is the value so far, `fits` whether it is an i64
RECURSIVE read_number(_, _, _, _)
read_number(input, pos, n, fits) ==
    IF pos <= Len(input) /\ input[pos] \in Digits
    THEN read_number(input, pos + 1,
                     IF fits /\ 10 * n + DigitValue(input[pos]) <= MaxInt
                     THEN 10 * n + DigitValue(input[pos]) ELSE 0,
                     fits /\ 10 * n + DigitValue(input[pos]) <= MaxInt)
    ELSE [n |-> IF fits THEN n ELSE 0, pos |-> pos]

\* the keyword match of next_token (lexer.rs 138-144)
keyword_or_ident(ident) ==
    CASE ident = "fn"     -> Tok("Fn")
      [] ident = "let"    -> Tok("Let")
      [] ident = "return" -> Tok("Return")
      [] ident = "int"    -> Tok("Int")
      [] OTHER            -> TIdent(ident)

ident_token(r)  == [tok |-> keyword_or_ident(r.text), pos |-> r.pos]
number_token(r) == [tok |-> TIntLit(r.n), pos |-> r.pos]

\* next_token after skip_whitespace (lexer.rs 89-150): the token at pos and the
\* position after it
token_at(input, pos) ==
    IF pos > Len(input) THEN [tok |-> TEof, pos |-> pos]
    ELSE IF input[pos] \in DOMAIN Punctuation
    THEN [tok |-> Punctuation[input[pos]], pos |-> pos + 1]
    ELSE IF input[pos] \in Digits THEN number_token(read_number(input, pos, 0, TRUE))
    ELSE IF input[pos] \in Letters \cup {"_"} THEN ident_token(read_ident(input, pos, ""))
    ELSE [tok |-> TIdent(input[pos]), pos |-> pos + 1]

next_token(input, pos) == token_at(input, skip_whitespace(input, pos))

\* tokenize (lexer.rs 153-164)
RECURSIVE tokenize_from(_, _)
push_token(input, toks, r) ==
    IF r.tok = TEof THEN Append(toks, r.tok)
    ELSE tokenize_from(input, [toks |-> Append(toks, r.tok), pos |-> r.pos])

tokenize_from(input, st) == push_token(input, st.toks, next_token(input, st.pos))

tokenize(input) == tokenize_from(input, [toks |-> <<>>, pos |-> 1])

-----------------------------------------------------------------------------
(* Parser (parser.rs). pos counts from 1: it is Parser.pos + 1.               *)

POk(pos, val) == [ok |-> TRUE, pos |-> pos, val |-> val]
PErr(m)       == [ok |-> FALSE, err |-> m]

\* the `?` operator: the failure r, or the rest of the function applied to r
Try(r, rest(_)) == IF r.ok THEN rest(r) ELSE r

\* the messages of parser.rs
Expected(expected, got) ==
    [msg |-> "Expected {:?}, got {:?}", expected |-> expected, got |-> got]
ExpectedFnOrLet(got)   == [msg |-> "Expected fn or let, got {:?}", got |-> got]
ExpectedType(got)      == [msg |-> "Expected type, got {:?}", got |-> got]
UnexpectedToken(got)   == [msg |-> "Unexpected token: {:?}", got |-> got]
OnlyIdentifiersCalled  == [msg |-> "Only identifiers can be called"]
Message(text)          == [msg |-> text]

DataDef(entries) == [entries |-> entries]
FileFunction(func) == [kind |-> "Function", func |-> func]
FileData(data)     == [kind |-> "Data", data |-> data]

\* current (parser.rs 14-16)
current(ts, pos) == IF pos <= Len(ts) THEN ts[pos] ELSE TEof

\* expect (parser.rs 22-29)
expect(ts, pos, expected) ==
    IF current(ts, pos) = expected THEN POk(pos + 1, expected)
    ELSE PErr(Expected(expected, current(ts, pos)))

\* `match self.current() { Token::Ident(s) => ..., _ => return Err(message) }`
\* (parser.rs 49-56, 82-89, 157-164, 188-195, 284-291)
ident_or(ts, pos, message) ==
    IF current(ts, pos).t = "Ident" THEN POk(pos + 1, current(ts, pos).text)
    ELSE PErr(Message(message))

\* parse_type (parser.rs 106-120)
parse_type(ts, pos) ==
    IF current(ts, pos).t = "Int"
    THEN IF current(ts, pos + 1).t = "LBracket"
         THEN Try(expect(ts, pos + 2, Tok("RBracket")), LAMBDA c : POk(c.pos, "IntArray"))
         ELSE POk(pos + 1, "Int")
    ELSE PErr(ExpectedType(current(ts, pos)))

\* the loop of parse_params (parser.rs 81-101), at a parameter's name
RECURSIVE params_loop(_, _, _)
params_loop(ts, pos, params) ==
    Try(ident_or(ts, pos, "Expected parameter name"), LAMBDA name :
    Try(expect(ts, name.pos, Tok("Colon")), LAMBDA colon :
    Try(parse_type(ts, colon.pos), LAMBDA ty :
        IF current(ts, ty.pos).t = "Comma"
        THEN params_loop(ts, ty.pos + 1, Append(params, Param(name.val, ty.val)))
        ELSE POk(ty.pos, Append(params, Param(name.val, ty.val))))))

\* parse_params (parser.rs 74-104)
parse_params(ts, pos) ==
    IF current(ts, pos).t = "RParen" THEN POk(pos, <<>>)
    ELSE params_loop(ts, pos, <<>>)

RECURSIVE parse_expr(_, _)
RECURSIVE parse_primary(_, _)
RECURSIVE postfix_loop(_, _, _)
RECURSIVE list_loop(_, _, _)

\* the loops of the array literal (parser.rs 207-214) and of parse_args
\* (parser.rs 266-273), at an element
list_loop(ts, pos, elements) ==
    Try(parse_expr(ts, pos), LAMBDA e :
        IF current(ts, e.pos).t = "Comma"
        THEN list_loop(ts, e.pos + 1, Append(elements, e.val))
        ELSE POk(e.pos, Append(elements, e.val)))

\* parse_args (parser.rs 259-276)
parse_args(ts, pos) ==
    IF current(ts, pos).t = "RParen" THEN POk(pos, <<>>)
    ELSE list_loop(ts, pos, <<>>)

\* the elements of an array literal behind its `[` (parser.rs 205-215)
parse_elements(ts, pos) ==
    IF current(ts, pos).t = "RBracket" THEN POk(pos, <<>>)
    ELSE list_loop(ts, pos, <<>>)

\* `if let Expr::Var(name) = expr` (parser.rs 233): what a `(` may follow
callee_or_data_ref(expr) == expr.e \in {"Var", "DataRef"}

callee(expr) == expr.e = "Var"

\* the postfix loop (parser.rs 229-254), expr the expression parsed so far
postfix_loop(ts, pos, expr) ==
    CASE current(ts, pos).t = "LParen" ->
            IF callee(expr)
            THEN Try(parse_args(ts, pos + 1), LAMBDA args :
                 Try(expect(ts, args.pos, Tok("RParen")), LAMBDA close :
                     postfix_loop(ts, close.pos, ECall(expr.name, args.val))))
            ELSE PErr(OnlyIdentifiersCalled)
      [] current(ts, pos).t = "LBracket" ->
            Try(parse_expr(ts, pos + 1), LAMBDA index :
            Try(expect(ts, index.pos, Tok("RBracket")), LAMBDA close :
                postfix_loop(ts, close.pos, EIndex(expr, index.val))))
      [] OTHER -> POk(pos, expr)

\* the primary forms (parser.rs 180-226)
primary(ts, pos) ==
    CASE current(ts, pos).t = "IntLit" -> POk(pos + 1, EInt(current(ts, pos).n))
      [] current(ts, pos).t = "Dot" ->
            Try(ident_or(ts, pos + 1, "Expected field name after ."), LAMBDA name :
                POk(name.pos, EDataRef(name.val)))
      [] current(ts, pos).t = "Ident" -> POk(pos + 1, EVar(current(ts, pos).text))
      [] current(ts, pos).t = "LBracket" ->
            Try(parse_elements(ts, pos + 1), LAMBDA elements :
            Try(expect(ts, elements.pos, Tok("RBracket")), LAMBDA close :
                POk(close.pos, EArray(elements.val))))
      [] current(ts, pos).t = "LParen" ->
            Try(parse_expr(ts, pos + 1), LAMBDA inner :
            Try(expect(ts, inner.pos, Tok("RParen")), LAMBDA close :
                POk(close.pos, inner.val)))
      [] OTHER -> PErr(UnexpectedToken(current(ts, pos)))

\* parse_primary (parser.rs 179-257)
parse_primary(ts, pos) ==
    Try(primary(ts, pos), LAMBDA first : postfix_loop(ts, first.pos, first.val))

\* parse_expr (parser.rs 175-177)
parse_expr(ts, pos) == parse_primary(ts, pos)

\* parse_let (parser.rs 154-173)
parse_let(ts, pos) ==
    Try(expect(ts, pos, Tok("Let")), LAMBDA kw :
    Try(ident_or(ts, kw.pos, "Expected variable name"), LAMBDA name :
    Try(expect(ts, name.pos, Tok("Colon")), LAMBDA colon :
    Try(parse_type(ts, colon.pos), LAMBDA ty :
    Try(expect(ts, ty.pos, Tok("Equals")), LAMBDA eq :
    Try(parse_expr(ts, eq.pos), LAMBDA value :
    Try(expect(ts, value.pos, Tok("Semicolon")), LAMBDA semi :
        POk(semi.pos, SLet(name.val, ty.val, value.val)))))))))

\* the loop of parse_block (parser.rs 126-149), at a statement
RECURSIVE block_loop(_, _, _)
block_loop(ts, pos, stmts) ==
    CASE current(ts, pos).t \in {"RBrace", "Eof"} ->
            POk(pos, [stmts |-> stmts, return_expr |-> None])
      [] current(ts, pos).t = "Let" ->
            Try(parse_let(ts, pos), LAMBDA stmt :
                block_loop(ts, stmt.pos, Append(stmts, stmt.val)))
      [] current(ts, pos).t = "Return" ->
            Try(parse_expr(ts, pos + 1), LAMBDA expr :
            Try(expect(ts, expr.pos, Tok("Semicolon")), LAMBDA semi :
                block_loop(ts, semi.pos, Append(stmts, SReturn(expr.val)))))
      [] OTHER ->
            Try(parse_expr(ts, pos), LAMBDA expr :
                IF current(ts, expr.pos).t = "Semicolon"
                THEN block_loop(ts, expr.pos + 1, Append(stmts, SExprStmt(expr.val)))
                ELSE POk(expr.pos, [stmts |-> stmts, return_expr |-> Some(expr.val)]))

\* parse_block (parser.rs 122-152)
parse_block(ts, pos) == block_loop(ts, pos, <<>>)

\* parse_function (parser.rs 46-72)
parse_function(ts, pos) ==
    Try(expect(ts, pos, Tok("Fn")), LAMBDA kw :
    Try(ident_or(ts, kw.pos, "Expected function name"), LAMBDA name :
    Try(expect(ts, name.pos, Tok("LParen")), LAMBDA open :
    Try(parse_params(ts, open.pos), LAMBDA params :
    Try(expect(ts, params.pos, Tok("RParen")), LAMBDA close :
    Try(expect(ts, close.pos, Tok("LBrace")), LAMBDA lbrace :
    Try(parse_block(ts, lbrace.pos), LAMBDA block :
    Try(expect(ts, block.pos, Tok("RBrace")), LAMBDA rbrace :
        POk(rbrace.pos,
            Function(name.val, params.val, block.val.stmts, block.val.return_expr))))))))))

\* `Token::IntLit(n) => ..., _ => return Err(...)` (parser.rs 297-304)
int_lit_or(ts, pos, message) ==
    IF current(ts, pos).t = "IntLit" THEN POk(pos + 1, current(ts, pos).n)
    ELSE PErr(Message(message))

\* the loop of parse_data (parser.rs 281-311), at an entry
RECURSIVE data_loop(_, _, _)
data_loop(ts, pos, entries) ==
    IF current(ts, pos).t = "Let"
    THEN Try(ident_or(ts, pos + 1, "Expected variable name"), LAMBDA name :
         Try(expect(ts, name.pos, Tok("Colon")), LAMBDA colon :
         Try(expect(ts, colon.pos, Tok("Int")), LAMBDA ty :
         Try(expect(ts, ty.pos, Tok("Equals")), LAMBDA eq :
         Try(int_lit_or(ts, eq.pos, "Expected integer value"), LAMBDA value :
         Try(expect(ts, value.pos, Tok("Semicolon")), LAMBDA semi :
             data_loop(ts, semi.pos, Append(entries, <<name.val, value.val>>))))))))
    ELSE POk(pos, DataDef(entries))

\* parse_data (parser.rs 278-314)
parse_data(ts, pos) == data_loop(ts, pos, <<>>)

\* parse_file (parser.rs 31-44); the position reached is kept with the outcome
parse_file(ts, pos) ==
    CASE current(ts, pos).t = "Let" ->
            Try(parse_data(ts, pos), LAMBDA data : POk(data.pos, FileData(data.val)))
      [] current(ts, pos).t = "Fn" ->
            Try(parse_function(ts, pos), LAMBDA func : POk(func.pos, FileFunction(func.val)))
      [] OTHER -> PErr(ExpectedFnOrLet(current(ts, pos)))

\* parse (parser.rs 317-322), on the tokens of tokenize(input)
parse(ts) == parse_file(ts, 1)

-----------------------------------------------------------------------------
(* The inputs the methods are called with *)

Names == {"x", "y"}

\* names and values handed to set_global and set_var
BindNames == {"x"}
BindVals  == {IntV(1), ArrV(<<IntV(10), IntV(20)>>)}

ArrayLits == {EArray(<<>>), EArray(<<EInt(10)>>), EArray(<<EInt(10), EInt(20)>>)}
IntLits   == {EInt(n) : n \in {MinInt, -1, 0, 1, 2, MaxInt}}
Refs      == {EVar(n) : n \in Names} \cup {EDataRef(n) : n \in Names}
Calls     == {ECall("f", <<>>), ECall("f", <<EVar("y")>>), ECall("g", <<ECall("f", <<>>)>>)}

Operands  == ArrayLits \cup {EInt(0), EInt(1)} \cup Refs \cup {ECall("f", <<EVar("y")>>)}

ExprPool ==
    ArrayLits \cup IntLits \cup Refs \cup Calls
    \cup {EIndex(a, i) : a \in ArrayLits, i \in IntLits}
    \cup {EIndex(a, i) : a \in Operands, i \in Operands}
    \cup {EArray(<<a, b>>) : a \in Refs \cup Calls, b \in Refs \cup Calls}
    \cup {EIndex(EIndex(EArray(<<a>>), EInt(0)), i) : a \in Operands, i \in {EInt(0), EInt(1)}}
    \cup {EArray(<<EIndex(a, EInt(0))>>) : a \in Operands}

-----------------------------------------------------------------------------
(* Spec: a Runtime and the calls of its public methods *)

NotParsed == [done |-> FALSE]

ParserIdle == src = <<>> /\ tokens = <<>> /\ parsed = NotParsed

\* Runtime::new (runtime.rs 16-21)
Init ==
    /\ globals = EmptyMap
    /\ locals = <<>>
    /\ last = [op |-> "new"]
    /\ ParserIdle

SetGlobal(name, value) ==
    /\ LET w == set_global(globals, locals, name, value)
       IN  globals' = w.g /\ locals' = w.l
    /\ last' = [op |-> "set_global"]
    /\ UNCHANGED <<src, tokens, parsed>>

SetVar(name, value) ==
    /\ LET w == set_var(globals, locals, name, value)
       IN  globals' = w.g /\ locals' = w.l
    /\ last' = [op |-> "set_var"]
    /\ UNCHANGED <<src, tokens, parsed>>

PushScope ==
    /\ Len(locals) < MaxScopes
    /\ locals' = push_scope(locals)
    /\ last' = [op |-> "push_scope"]
    /\ UNCHANGED <<globals, src, tokens, parsed>>

PopScope ==
    /\ locals' = pop_scope(locals)
    /\ last' = [op |-> "pop_scope"]
    /\ UNCHANGED <<globals, src, tokens, parsed>>

EvalExpr(expr) ==
    /\ last' = [op |-> "eval_expr", expr |-> expr, out |-> eval_expr(globals, locals, expr)]
    /\ UNCHANGED <<globals, locals, src, tokens, parsed>>

Next ==
    \/ \E name \in BindNames, value \in BindVals : SetGlobal(name, value)
    \/ \E name \in BindNames, value \in BindVals : SetVar(name, value)
    \/ PushScope
    \/ PopScope
    \/ \E expr \in ExprPool : EvalExpr(expr)

Spec == Init /\ [][Next]_vars

-----------------------------------------------------------------------------
(* CallSpec: a Runtime on which only set_global and eval_function are called *)

Fn(params, body, return_expr) ==
    Function("f", [i \in 1..Len(params) |-> Param(params[i], "Int")], body, return_expr)

\* statements of the zero-parameter functions
StmtPool ==
    { SLet("y", "Int", EInt(1)), SExprStmt(EVar("y")), SExprStmt(ECall("g", <<>>)),
      SReturn(EInt(1)), SReturn(EVar("y")) }

Bodies == {<<>>} \cup {<<s>> : s \in StmtPool} \cup {<<s, t>> : s \in StmtPool, t \in StmtPool}

\* fn f() { ... } with every body of at most two statements
PlainFuncs ==
    {Fn(<<>>, b, t) : b \in Bodies, t \in {None, Some(EInt(3)), Some(EVar("y"))}}

\* fn f(x: int) { ... }
UnaryFuncs ==
    {Fn(<<"x">>, b, t) :
        b \in { <<>>, <<SLet("y", "Int", EVar("x"))>>, <<SReturn(EVar("x"))>>,
                <<SExprStmt(EVar("y"))>>, <<SReturn(EInt(1)), SLet("x", "Int", EInt(1))>> },
        t \in { None, Some(EVar("x")), Some(EVar("y")), Some(EIndex(EVar("x"), EInt(1))) }}

\* fn f(x: int, x: int) { x } and fn f(x: int, y: int) { ... }
BinaryFuncs ==
    {Fn(p, <<>>, Some(t)) : p \in {<<"x", "x">>, <<"x", "y">>}, t \in {EVar("x"), EVar("y")}}

ArgVals == {IntV(1), ArrV(<<IntV(10), IntV(20)>>), ArrV(<<IntV(10)>>)}

CallPool ==
    {<<f, <<>>>> : f \in PlainFuncs}
    \cup {<<f, <<a>>>> : f \in UnaryFuncs, a \in ArgVals}
    \cup {<<f, <<a, b>>>> : f \in BinaryFuncs, a \in {IntV(1)}, b \in ArgVals}
    \cup {<<f, a>> : f \in {Fn(<<>>, <<SLet("y", "Int", EInt(1))>>, Some(EVar("y"))),
                            Fn(<<"x">>, <<SLet("y", "Int", EVar("x"))>>, Some(EVar("x"))),
                            Fn(<<"x", "y">>, <<>>, Some(EVar("x")))},
                     a \in {<<>>, <<IntV(1)>>, <<IntV(1), IntV(1)>>, <<IntV(1), IntV(1), IntV(1)>>}}

EvalFunction(func, args) ==
    /\ Len(locals) < MaxScopes
    /\ LET out == eval_function(globals, locals, func, args)
       IN  /\ globals' = out.g
           /\ locals' = out.l
           /\ last' = [op |-> "eval_function", func |-> func, args |-> args,
                       globals0 |-> globals, locals0 |-> locals, out |-> out]
    /\ UNCHANGED <<src, tokens, parsed>>

CallNext ==
    \/ SetGlobal("x", IntV(7))
    \/ \E c \in CallPool : EvalFunction(c[1], c[2])

CallSpec == Init /\ [][CallNext]_vars

-----------------------------------------------------------------------------
(* Claims about eval_function (CallSpec) *)

IsCall == last.op = "eval_function"

ParamNames(func) == {func.params[i].name : i \in 1..Len(func.params)}
LetNames(func)   == {func.body[i].name : i \in {j \in 1..Len(func.body) : func.body[j].s = "Let"}}

\* the statements the body loop evaluated without failure
BodyCompleted(out) == \A k \in 1..Len(out.trace) : out.trace[k].res.ok
\* a Return statement gave a value
Returned(out) == \E k \in 1..Len(out.trace) : out.trace[k].res.ok /\ out.trace[k].res.val.some

\* C1: every call of eval_function leaves the locals stack as deep as it found
\* it, whether it returns a value or fails; so after calls of eval_function
\* alone on a fresh Runtime the stack is empty.
C1_ScopePoppedWhateverOutcome ==
    /\ IsCall => Len(locals) = Len(last.locals0)
    /\ locals = <<>>

\* C2: on a Runtime that saw only eval_function (and set_global) calls, a name
\* looked up during a call that is neither a global nor a parameter or let of
\* the function called is not found: the call fails naming it, whatever
\* earlier calls bound.
C2_EarlierCallsInvisible ==
    IsCall =>
        \A k \in 1..Len(last.out.looked) :
            LET n == last.out.looked[k]
            IN  (/\ n \notin DOMAIN last.globals0
                 /\ n \notin ParamNames(last.func)
                 /\ n \notin LetNames(last.func))
                => /\ ~last.out.res.ok
                   /\ last.out.res.err = UndefinedVariable(n)

\* C3: when the function has a trailing expression and the body loop has ended
\* (by running out of statements or by a Return), the trailing expression is
\* evaluated in the call's scope, which holds every parameter and every let
\* executed, and its outcome, value or failure, is the outcome of the call.
C3_TrailingOverridesReturn ==
    (IsCall /\ arity_ok(last.func, last.args) /\ last.func.return_expr.some
        /\ BodyCompleted(last.out))
    => /\ last.out.tail.some
       /\ ParamNames(last.func) \subseteq DOMAIN last.out.tail.val.scope
       /\ \A k \in 1..Len(last.out.trace) :
             last.func.body[k].s = "Let"
             => last.func.body[k].name \in DOMAIN last.out.tail.val.scope
       /\ last.out.res =
            eval_expr(last.globals0, Append(last.locals0, last.out.tail.val.scope),
                      last.func.return_expr.val).res
       /\ last.func.return_expr.val.e = "Int"
            => last.out.res = Ok(IntV(last.func.return_expr.val.n))

\* C3 witness: fn f() { return 1; 3 } gave Int(3).
C3_Witness ==
    /\ IsCall /\ Returned(last.out) /\ last.func.return_expr.some
    /\ last.out.res.ok
    /\ \E k \in 1..Len(last.out.trace) :
          /\ last.out.trace[k].res.val.some
          /\ last.out.trace[k].res.val.val # last.out.res.val

\* C4: the body statements are evaluated in order from the first; nothing is
\* evaluated after a Return whose expression evaluated (a later let binds
\* nothing); without a trailing expression the call gives that Return's value,
\* and Int(0) when the body ran through without a Return.
C4_ReturnStopsBody ==
    (IsCall /\ arity_ok(last.func, last.args)) =>
    LET tr   == last.out.trace
        body == last.func.body
    IN  /\ \A k \in 1..Len(tr) : tr[k].at = k
        /\ Len(tr) <= Len(body)
        /\ \A k \in 1..Len(tr) : (tr[k].res.ok /\ tr[k].res.val.some) => k = Len(tr)
        /\ (BodyCompleted(last.out) /\ ~Returned(last.out)) => Len(tr) = Len(body)
        /\ \A k \in 1..Len(tr) :
              (tr[k].res.ok /\ tr[k].res.val.some)
              => /\ body[k].s = "Return"
                 /\ body[k].expr.e = "Int" => tr[k].res.val.val = IntV(body[k].expr.n)
                 /\ ~last.func.return_expr.some => last.out.res = Ok(tr[k].res.val.val)
        /\ (BodyCompleted(last.out) /\ ~Returned(last.out) /\ ~last.func.return_expr.some)
              => last.out.res = Ok(IntV(0))
        /\ last.out.tail.some
              => DOMAIN last.out.tail.val.scope \subseteq
                    ParamNames(last.func)
                    \cup {body[k].name : k \in {j \in 1..Len(tr) : body[j].s = "Let"}}

\* C4 witness: a Return gave the call's value although the next statement
\* would have failed.
C4_Witness ==
    /\ IsCall /\ Returned(last.out) /\ last.out.res.ok
    /\ Len(last.out.trace) < Len(last.func.body)
    /\ ~eval_stmt(last.globals0, Append(last.locals0, last.out.bound.val),
                  last.func.body[Len(last.out.trace) + 1]).res.ok

\* the last position at which parameter `name` is declared
LastParam(func, name) ==
    CHOOSE i \in 1..Len(func.params) :
        /\ func.params[i].name = name
        /\ \A j \in (i + 1)..Len(func.params) : func.params[j].name # name

\* C8: a call with a wrong number of arguments fails at once: nothing is pushed,
\* bound or evaluated, and globals and locals are as before; with the right
\* number the new scope binds each parameter name to the argument at the last
\* position declaring it.
C8_ArgumentCountChecked ==
    IsCall =>
        /\ Len(last.func.params) # Len(last.args)
           => /\ last.out.res = Err(ArgumentCount(last.func.name, Len(last.func.params),
                                                  Len(last.args)))
              /\ globals = last.globals0 /\ locals = last.locals0
              /\ ~last.out.bound.some /\ last.out.trace = <<>>
              /\ ~last.out.tail.some /\ last.out.looked = <<>>
        /\ Len(last.func.params) = Len(last.args)
           => /\ last.out.bound.some
              /\ DOMAIN last.out.bound.val = ParamNames(last.func)
              /\ \A n \in ParamNames(last.func) :
                    last.out.bound.val[n] = last.args[LastParam(last.func, n)]

\* C8 witness: a call with too many arguments on a Runtime holding a scope.
C8_Witness ==
    /\ IsCall /\ Len(last.args) > Len(last.func.params)
    /\ last.locals0 # <<>> /\ ~last.out.res.ok

-----------------------------------------------------------------------------
(* Claims about eval_expr and get_var (Spec) *)

IsEval == last.op = "eval_expr"

\* C5: an index expression fails as its target does, else as its index does;
\* on an Array of length n and an Int i it gives the element at position i
\* exactly when 0 <= i < n, and otherwise fails out of bounds naming i taken as
\* an unsigned position; on any other pair of kinds it fails with the type
\* mismatch.
C5_IndexChecked ==
    (IsEval /\ last.expr.e = "Index") =>
    LET t == eval_expr(globals, locals, last.expr.target).res
        i == eval_expr(globals, locals, last.expr.index).res
        r == last.out.res
    IN  /\ ~t.ok => r = t
        /\ (t.ok /\ ~i.ok) => r = i
        /\ (t.ok /\ i.ok /\ t.val.v = "Array" /\ i.val.v = "Int") =>
              /\ (0 <= i.val.n /\ i.val.n < Len(t.val.elems))
                    => r = Ok(t.val.elems[i.val.n + 1])
              /\ i.val.n >= Len(t.val.elems) => r = Err(IndexOutOfBounds(i.val.n))
              /\ i.val.n < 0 => r = Err(IndexOutOfBounds(i.val.n + 2 ^ IntBits))
        /\ (t.ok /\ i.ok /\ ~(t.val.v = "Array" /\ i.val.v = "Int"))
              => r = Err(IndexTypeMismatch)
        /\ last.expr = EIndex(EArray(<<EInt(10), EInt(20)>>), EInt(1)) => r = Ok(IntV(20))
        /\ last.expr = EIndex(EArray(<<EInt(10)>>), EInt(1)) => r = Err(IndexOutOfBounds(1))

\* C5 witness: [10, 20][-1] failed naming the position -1 stands for.
C5_Witness ==
    /\ IsEval
    /\ last.expr = EIndex(EArray(<<EInt(10), EInt(20)>>), EInt(-1))
    /\ last.out.res = Err(IndexOutOfBounds(2 ^ IntBits - 1))

RECURSIVE ContainsCall(_)
ContainsCall(expr) ==
    CASE expr.e = "Call"  -> TRUE
      [] expr.e = "Array" -> \E k \in 1..Len(expr.exprs) : ContainsCall(expr.exprs[k])
      [] expr.e = "Index" -> ContainsCall(expr.target) \/ ContainsCall(expr.index)
      [] OTHER            -> FALSE

\* C7: evaluating an expression with a Call node anywhere in it fails; a Call
\* node itself fails naming its callee, without any lookup for its arguments.
C7_CallsAlwaysFail ==
    IsEval =>
        /\ ContainsCall(last.expr) => ~last.out.res.ok
        /\ last.expr.e = "Call"
           => /\ last.out.res = Err(CallsNotSupported(last.expr.name))
              /\ last.out.looked = <<>>

\* C7 witness: [10][f(y)], a call in index position behind a target that evaluates.
C7_Witness ==
    /\ IsEval
    /\ last.expr.e = "Index" /\ last.expr.index.e = "Call"
    /\ eval_expr(globals, locals, last.expr.target).res.ok
    /\ last.out.res = Err(CallsNotSupported(last.expr.index.name))

\* the scopes of the locals stack that bind `name`
Binding(name) == {i \in 1..Len(locals) : name \in DOMAIN locals[i]}
Innermost(name) == CHOOSE i \in Binding(name) : \A j \in Binding(name) : j <= i

\* what a lookup of `name` is to give: the innermost local binding, else the
\* global one, else nothing
Visible(name) ==
    IF Binding(name) # {} THEN Some(locals[Innermost(name)][name])
    ELSE IF name \in DOMAIN globals THEN Some(globals[name])
    ELSE None

\* C10: in every state get_var gives, for every name, the binding of the
\* innermost local scope holding it, else the global binding, else nothing;
\* Var and DataRef both evaluate to that binding, and fail naming the
\* identifier when there is none.
C10_InnermostThenGlobals ==
    /\ \A n \in Names : get_var(globals, locals, n) = Visible(n)
    /\ (IsEval /\ last.expr.e = "Var")
       => last.out.res = IF Visible(last.expr.name).some
                         THEN Ok(Visible(last.expr.name).val)
                         ELSE Err(UndefinedVariable(last.expr.name))
    /\ (IsEval /\ last.expr.e = "DataRef")
       => last.out.res = IF Visible(last.expr.name).some
                         THEN Ok(Visible(last.expr.name).val)
                         ELSE Err(UndefinedDataField(last.expr.name))

\* C10 witness: x is bound in two scopes and in globals, and the reference
\* gave the innermost binding, which differs from the other two.
C10_Witness ==
    /\ IsEval /\ last.expr = EVar("x")
    /\ Len(locals) = 2 /\ Binding("x") = {1, 2} /\ "x" \in DOMAIN globals
    /\ locals[2]["x"] # locals[1]["x"] /\ locals[2]["x"] # globals["x"]
    /\ last.out.res = Ok(locals[2]["x"])

-----------------------------------------------------------------------------
(* ParseSpec: parse(input) on source texts *)

\* texts of well-formed and ill-formed files
Bases ==
    {
      \* fn f(){f(a)[0][x]}
      <<"f", "n", " ", "f", "(", ")", "{", "f", "(", "a", ")", "[", "0", "]", "[", "x", "]", "}">>,
      \* fn f(){return 1;3}
      <<"f", "n", " ", "f", "(", ")", "{", "r", "e", "t", "u", "r", "n", " ", "1", ";", "3", "}">>,
      \* fn f(a:int[]){a[1]}
      <<"f", "n", " ", "f", "(", "a", ":", "i", "n", "t", "[", "]", ")", "{", "a", "[", "1", "]", "}">>,
      \* fn f(){let x:int=1;return x;}
      <<"f", "n", " ", "f", "(", ")", "{", "l", "e", "t", " ", "x", ":", "i", "n", "t", "=", "1", ";", "r", "e", "t", "u", "r", "n", " ", "x", ";", "}">>,
      \* let a:int=5;let b:int=7;
      <<"l", "e", "t", " ", "a", ":", "i", "n", "t", "=", "5", ";", "l", "e", "t", " ", "b", ":", "i", "n", "t", "=", "7", ";">>,
      \* fn f(){.d[0]}
      <<"f", "n", " ", "f", "(", ")", "{", ".", "d", "[", "0", "]", "}">>,
      \* fn f(){[1,a](0)}
      <<"f", "n", " ", "f", "(", ")", "{", "[", "1", ",", "a", "]", "(", "0", ")", "}">>,
      \* fn f(){f(a)(0)}
      <<"f", "n", " ", "f", "(", ")", "{", "f", "(", "a", ")", "(", "0", ")", "}">>,
      \* fn f(){(f)(a)}
      <<"f", "n", " ", "f", "(", ")", "{", "(", "f", ")", "(", "a", ")", "}">>,
      \* fn f(){a[0](1)}
      <<"f", "n", " ", "f", "(", ")", "{", "a", "[", "0", "]", "(", "1", ")", "}">>,
      \* fn f(x:int,y:int){f(x,[y]);}
      <<"f", "n", " ", "f", "(", "x", ":", "i", "n", "t", ",", "y", ":", "i", "n", "t", ")", "{", "f", "(", "x", ",", "[", "y", "]", ")", ";", "}">>,
      \* fn f(){g(x,[y])}
      <<"f", "n", " ", "f", "(", ")", "{", "g", "(", "x", ",", "[", "y", "]", ")", "}">>,
      \* fn f(){[1,a][0]}
      <<"f", "n", " ", "f", "(", ")", "{", "[", "1", ",", "a", "]", "[", "0", "]", "}">>,
      \* fn f(){}
      <<"f", "n", " ", "f", "(", ")", "{", "}">>,
      \* (the empty text)
      <<>>
    }

\* the characters a text is edited with
EditChars == {"(", ")", "[", "]", "{", "}", ";", ",", ".", " ", "a", "1"}

Inserted(text, i, c) == SubSeq(text, 1, i - 1) \o <<c>> \o SubSeq(text, i, Len(text))
Deleted(text, i)     == SubSeq(text, 1, i - 1) \o SubSeq(text, i + 1, Len(text))
Replaced(text, i, c) == [text EXCEPT ![i] = c]

\* every base text and every text one character away from one
Sources ==
    Bases
    \cup UNION {{Inserted(t, i, c) : i \in 1..(Len(t) + 1), c \in EditChars} : t \in Bases}
    \cup UNION {{Deleted(t, i) : i \in 1..Len(t)} : t \in Bases}
    \cup UNION {{Replaced(t, i, c) : i \in 1..Len(t), c \in EditChars} : t \in Bases}

ParseInit ==
    /\ globals = EmptyMap
    /\ locals = <<>>
    /\ last = [op |-> "new"]
    /\ src \in Sources
    /\ tokens = <<>>
    /\ parsed = NotParsed

\* parse (parser.rs 317-322): Lexer::new(input).tokenize(), then
\* Parser::new(tokens).parse_file()
Parse ==
    /\ ~parsed.done
    /\ tokens' = tokenize(src)
    /\ parsed' = [done |-> TRUE, res |-> parse(tokens')]
    /\ UNCHANGED <<globals, locals, last, src>>

ParseNext == Parse

ParseSpec == ParseInit /\ [][ParseNext]_vars

-----------------------------------------------------------------------------
(* Claims about parse (ParseSpec) *)

\* C6: parse fails on every text that is not a well-formed file: a text whose
\* first token is neither fn nor let fails, and a text whose first token is fn
\* gives a Function only when the function's closing brace is the last token
\* before the end marker.
C6_OnlyWholeFilesParse ==
    parsed.done =>
        /\ tokens[1].t \notin {"Fn", "Let"} => ~parsed.res.ok
        /\ (tokens[1].t = "Fn" /\ parsed.res.ok)
           => /\ parsed.res.val.kind = "Function"
              /\ parsed.res.pos = Len(tokens)

\* fn f() {
FnHead == <<Tok("Fn"), TIdent("f"), Tok("LParen"), Tok("RParen"), Tok("LBrace")>>
HasHead == Len(tokens) > Len(FnHead) /\ SubSeq(tokens, 1, Len(FnHead)) = FnHead
First == Len(FnHead) + 1

\* the tokens i..j parsed as an expression on their own
Alone(i, j) == parse_expr(SubSeq(tokens, i, j) \o <<TEof>>, 1)
\* ... are one whole expression
Whole(i, j) == i <= j /\ Alone(i, j).ok /\ Alone(i, j).pos = j - i + 2
\* the tokens i..j, j a `)`, parsed as the arguments of a call
ArgsAlone(i, j) == parse_args(SubSeq(tokens, i, j) \o <<TEof>>, 1)
WholeArgs(i, j) ==
    i <= j /\ tokens[j].t = "RParen" /\ ArgsAlone(i, j).ok /\ ArgsAlone(i, j).pos = j - i + 1

\* tokens j.. are `}` and the end marker
Closes(j) == j + 1 = Len(tokens) /\ tokens[j].t = "RBrace"

RECURSIVE CallNames(_)
CallNames(expr) ==
    CASE expr.e = "Call"  ->
            {expr.name} \cup UNION {CallNames(expr.args[k]) : k \in 1..Len(expr.args)}
      [] expr.e = "Array" -> UNION {CallNames(expr.exprs[k]) : k \in 1..Len(expr.exprs)}
      [] expr.e = "Index" -> CallNames(expr.target) \cup CallNames(expr.index)
      [] OTHER            -> {}

StmtExpr(stmt) == IF stmt.s = "Let" THEN stmt.value ELSE stmt.expr

FunctionCallNames(func) ==
    UNION {CallNames(StmtExpr(func.body[k])) : k \in 1..Len(func.body)}
    \cup (IF func.return_expr.some THEN CallNames(func.return_expr.val) ELSE {})

\* C9: no parse gets past a `(` that stands behind a whole expression other
\* than a bare variable reference (the parse fails with "Only identifiers can
\* be called" when that expression opens the body); behind a bare variable
\* reference a `(` gives a Call of that name; a `[` behind any whole expression gives an Index of that expression;
\* so every callee of a parsed function is the text of an identifier token,
\* and f(a)[0][x] is Index(Index(Call f [a], 0), x).
C9_OnlyIdentifiersCalled ==
    parsed.done =>
        /\ \A i \in 1..Len(tokens), j \in 1..(Len(tokens) - 1) :
              (Whole(i, j) /\ tokens[j + 1].t = "LParen" /\ Alone(i, j).val.e # "Var")
              => /\ parsed.res.ok => parsed.res.pos <= j + 1
                 /\ (HasHead /\ i = First) => parsed.res = PErr(OnlyIdentifiersCalled)
        /\ \A j \in First..Len(tokens), k \in First..Len(tokens) :
              (HasHead /\ Whole(First, j) /\ Alone(First, j).val.e = "Var"
                  /\ tokens[j + 1].t = "LParen" /\ WholeArgs(j + 2, k) /\ Closes(k + 1))
              => /\ parsed.res.ok
                 /\ parsed.res.val.func.body = <<>>
                 /\ parsed.res.val.func.return_expr =
                        Some(ECall(Alone(First, j).val.name, ArgsAlone(j + 2, k).val))
        /\ \A j \in First..Len(tokens), k \in First..Len(tokens) :
              (HasHead /\ Whole(First, j) /\ tokens[j + 1].t = "LBracket"
                  /\ Whole(j + 2, k) /\ tokens[k + 1].t = "RBracket" /\ Closes(k + 2))
              => /\ parsed.res.ok
                 /\ parsed.res.val.func.body = <<>>
                 /\ parsed.res.val.func.return_expr =
                        Some(EIndex(Alone(First, j).val, Alone(j + 2, k).val))
        /\ (parsed.res.ok /\ parsed.res.val.kind = "Function")
              => \A n \in FunctionCallNames(parsed.res.val.func) :
                    \E k \in 1..Len(tokens) : tokens[k] = TIdent(n)
        /\ SubSeq(tokens, First, Len(tokens) - 2)
              = <<TIdent("f"), Tok("LParen"), TIdent("a"), Tok("RParen"),
                  Tok("LBracket"), TIntLit(0), Tok("RBracket"),
                  Tok("LBracket"), TIdent("x"), Tok("RBracket")>>
              /\ HasHead /\ Closes(Len(tokens) - 1)
           => /\ parsed.res.ok
              /\ parsed.res.val.func.return_expr =
                    Some(EIndex(EIndex(ECall("f", <<EVar("a")>>), EInt(0)), EVar("x")))

\* C9 witness: a[0](1) opens the body and the parse failed at the `(`.
C9_Witness ==
    /\ parsed.done /\ HasHead
    /\ \E j \in First..(Len(tokens) - 1) :
          /\ Whole(First, j) /\ Alone(First, j).val.e = "Index"
          /\ tokens[j + 1].t = "LParen"
    /\ parsed.res = PErr(OnlyIdentifiersCalled)

-----------------------------------------------------------------------------
(* FrameSpec: a Runtime on which every method is called, eval_function with *)
(* functions whose bodies hold let statements                               *)

\* fn f() { let ...; ... } and fn f(x: int) { let ...; ... }, with the arguments
\* of each call: calls that succeed, that fail before, in and after a let, in
\* the trailing expression, and by the argument count
FramePool ==
    { <<Fn(<<>>, <<SLet("x", "Int", EInt(1))>>, Some(EVar("x"))), <<>>>>,
      <<Fn(<<>>, <<SLet("y", "Int", EInt(1)), SExprStmt(ECall("g", <<>>))>>, None), <<>>>>,
      <<Fn(<<>>, <<SLet("x", "Int", EVar("y"))>>, None), <<>>>>,
      <<Fn(<<>>, <<SLet("x", "Int", EInt(1)), SReturn(EVar("x"))>>,
           Some(EDataRef("y"))), <<>>>>,
      <<Fn(<<"x">>, <<SLet("y", "Int", EVar("x"))>>, Some(EVar("y"))), <<IntV(1)>>>>,
      <<Fn(<<"x">>, <<SLet("y", "Int", EVar("x"))>>, Some(EVar("y"))), <<>>>>,
      <<Fn(<<"x">>, <<SReturn(EVar("x")), SLet("y", "Int", EInt(1))>>, None),
        <<ArrV(<<IntV(10), IntV(20)>>)>>>> }

FrameNext ==
    \/ \E name \in BindNames, value \in BindVals : SetGlobal(name, value)
    \/ \E name \in BindNames, value \in BindVals : SetVar(name, value)
    \/ PushScope
    \/ PopScope
    \/ \E name \in Names : EvalExpr(EVar(name))
    \/ \E c \in FramePool : EvalFunction(c[1], c[2])

FrameSpec == Init /\ [][FrameNext]_vars

-----------------------------------------------------------------------------
(* Claims about the frame of eval_function (FrameSpec) *)

\* the names of the let statements the body loop evaluated without failure
ExecutedLets(func, out) ==
    {func.body[out.trace[k].at].name :
        k \in {j \in 1..Len(out.trace) :
                  out.trace[j].res.ok /\ func.body[out.trace[j].at].s = "Let"}}

\* a call of eval_function leaves the globals as it found them and the scopes
\* below its own untouched; the names its lets bound are in its own scope
\* wherever that scope can be seen (where the trailing expression was
\* evaluated, and on the stack when the call left it there)
LetsBoundInCallScope ==
    IsCall =>
        /\ globals = last.globals0
        /\ Len(locals) >= Len(last.locals0)
        /\ SubSeq(locals, 1, Len(last.locals0)) = last.locals0
        /\ \A n \in ExecutedLets(last.func, last.out) :
              /\ last.out.tail.some => n \in DOMAIN last.out.tail.val.scope
              /\ Len(locals) > Len(last.locals0) => n \in DOMAIN locals[Len(locals)]

\* a step that changes the globals is set_global, or set_var on an empty stack
OnlySettersChangeGlobals ==
    globals' # globals =>
        \/ last'.op = "set_global"
        \/ last'.op = "set_var" /\ locals = <<>>

\* C11: a let statement executed during eval_function binds into the scope
\* pushed for that call and never into the globals: whatever the function, the
\* arguments and the outcome, the globals after eval_function are the globals
\* before it; only set_global, or set_var while the locals stack is empty,
\* changes the globals.
C11_LetNeverWritesGlobals ==
    /\ []LetsBoundInCallScope
    /\ [][OnlySettersChangeGlobals]_vars

\* a call on an empty stack executed a let whose name is no global, and failed
\* afterwards; the globals hold a binding made earlier
C11_Witness ==
    /\ IsCall
    /\ last.locals0 = <<>>
    /\ globals # EmptyMap
    /\ ~last.out.res.ok
    /\ \E n \in ExecutedLets(last.func, last.out) : n \notin DOMAIN globals

====
